---- MODULE Spec2Model ----
\* Disassembly block engine of bite (processor/src/blocks.rs):
\* the Boundary Computer (compute_block_boundaries, one scoped worker thread
\* per section running compute_section_boundaries), the Block Materializer
\* (parse_blocks, parse_data_or_code) and the height estimate Block::len.
EXTENDS Integers, Sequences, FiniteSets, TLC

\* ---------------------------------------------------------------- bounds
\* Largest address; usize is scaled down to 0..MaxAddr, so usize::MAX is
\* MaxAddr and address arithmetic overflows past it.
MaxAddr == 3
\* Largest number of facts (instructions, errors, function labels) the
\* decoder view and the symbol index hold together.
MaxItems == 2
\* Largest byte count of a Bytes block handed to Block::len.
MaxBytes == 4100
\* Largest modification timestamp of the shader source.
MaxTime == 2
\* Number of valid shader sources; source c compiles to c words of SPIR-V.
MaxSrc == 2
\* Number of load_dissasembly tasks spawned.
MaxTasks == 2
\* Largest number of lines decoded from a file.
MaxDecoded == 2

\* ------------------------------------------------------ program constants
\* bytes.len() / 32 in Block::len, bytes.chunks(32) in Block::tokenize.
ChunkWidth == 32
\* .take(100) in Block::tokenize.
MaxLines == 100

VARIABLES
    sections,    \* the section map: sequence of [start, addr, end]
    insts,       \* decoder view: address -> width of the instruction there
    errs,        \* decoder view: address -> size of the decoder error there
    funcs,       \* symbol index: addresses at which a function is reported
    build,       \* "any" until an overflow wrapped, then "release"
    mpc,         \* compute_block_boundaries: idle/running/unwinding/returned/panicked
    wpc,         \* per worker thread: idle/run/done/panic
    waddr,       \* per worker: local `addr` of compute_section_boundaries
    wbnd,        \* per worker: local `boundaries` of compute_section_boundaries
    joined,      \* number of threads joined so far
    boundaries,  \* `boundaries` of compute_block_boundaries
    paddr,       \* argument of the last parse_blocks call
    presult,     \* its outcome: [status, blocks]
    block,       \* receiver of the last Block::len call
    lines,       \* its result
    last,        \* the previous compute_block_boundaries call: [returned, list]
    stream,      \* the TokenStream handed to Block::tokenize: sequence of tokens
    src,         \* the shader source file: [exists, mtime, content]
    cache,       \* the shader cache file: [exists, data]
    sh,          \* the generate_vulkan_shader_module call: pc, locals, result
    stale,       \* the source was modified since the cache was last written
    dissasembly, \* the shared list behind Arc<Mutex<Vec<Line>>>
    mutex,       \* its mutex: [holder, poisoned]
    tasks,       \* per load_dissasembly task: [pc, file, next]
    show_donut   \* the AtomicBool show_donut

vars == <<sections, insts, errs, funcs, build, mpc, wpc, waddr, wbnd, joined,
          boundaries, paddr, presult, block, lines, last, stream,
          src, cache, sh, stale, dissasembly, mutex, tasks, show_donut>>

inputs == <<sections, insts, errs, funcs>>
walkvars == <<build, mpc, wpc, waddr, wbnd, joined, boundaries>>
parsevars == <<paddr, presult>>
shadervars == <<src, cache, sh, stale>>
loadvars == <<dissasembly, mutex, tasks, show_donut>>
guivars == <<shadervars, loadvars>>
lenvars == <<block, lines, last, stream, guivars>>

Addr == 0..MaxAddr
UsizeMax == MaxAddr
Modulus == UsizeMax + 1
\* Widths the decoder reports: up to half the address space, enough for an
\* item that starts inside a section to reach past its end.
MaxWidth == (MaxAddr + 1) \div 2
Widths == 1..MaxWidth
Threads == DOMAIN sections

\* ------------------------------------------------------------ data model
\* A Block: its variant tag, its addr, the section of its payload (for a
\* real block the section its bytes are read from) and, for a real block,
\* the number of bytes read (instruction width, error size, run length).
Block(kind, addr, sec, len) == [kind |-> kind, addr |-> addr, sec |-> sec, len |-> len]
NoBlock == Block("None", 0, 0, 0)
MarkerKinds == {"SectionStart", "SectionEnd"}
RealKinds == {"Instruction", "Error", "Bytes"}

instruction_by_addr(addr) == addr \in DOMAIN insts
instruction_width(addr) == insts[addr]
error_by_addr(addr) == addr \in DOMAIN errs
error_size(addr) == errs[addr]
get_func_by_addr(addr) == addr \in funcs

SetMin(S) == CHOOSE x \in S : \A y \in S : x <= y

\* Iterator::find over self.sections(): the index of the first section
\* among hits, 0 for None.
FindSection(hits) == IF hits = {} THEN 0 ELSE SetMin(hits)

\* The section containing addr: a section whose half-open range holds addr,
\* else a section that ends exactly at addr, else None (0).
section_by_addr(addr) ==
    LET inside == FindSection({i \in DOMAIN sections :
                      sections[i].start <= addr /\ addr < sections[i].end})
    IN IF inside # 0 THEN inside
       ELSE FindSection({i \in DOMAIN sections :
                sections[i].start <= addr /\ addr = sections[i].end})

\* ------------------------------------------------- Block Materializer
\* Mutation of ScanParse: the scan does not stop at a labelled address.
RECURSIVE ScanParseNoLabel(_, _, _)
ScanParseNoLabel(section, addr, baddr) ==
    IF baddr = section.end THEN baddr
    ELSE IF instruction_by_addr(baddr) THEN baddr
    ELSE IF error_by_addr(baddr) THEN baddr
    ELSE ScanParseNoLabel(section, addr, baddr + 1)

\* Forward scan of parse_data_or_code: the address the undecoded run that
\* starts at addr ends at. addr lies in the section, so baddr meets
\* section.end before it can overflow.
RECURSIVE ScanParse(_, _, _)
ScanParse(section, addr, baddr) ==
    IF baddr = section.end THEN baddr
    ELSE IF instruction_by_addr(baddr) THEN baddr
    ELSE IF error_by_addr(baddr) THEN baddr
    ELSE IF addr # baddr /\ get_func_by_addr(baddr) THEN baddr
    ELSE ScanParse(section, addr, baddr + 1)

\* Mutation of parse_data_or_code: a run of a single byte yields no block.
parse_data_or_code_DropsShortRun(addr) ==
    LET sec == section_by_addr(addr)
    IN IF sec = 0 THEN [status |-> "panic", block |-> NoBlock]
       ELSE IF instruction_by_addr(addr) THEN
            [status |-> "some", block |-> Block("Instruction", addr, sec, instruction_width(addr))]
       ELSE IF error_by_addr(addr) THEN
            [status |-> "some", block |-> Block("Error", addr, sec, error_size(addr))]
       ELSE LET baddr == ScanParse(sections[sec], addr, addr)
                bytes_len == baddr - addr
            IN IF bytes_len > 1
               THEN [status |-> "some", block |-> Block("Bytes", addr, sec, bytes_len)]
               ELSE [status |-> "none", block |-> NoBlock]

\* Mutation of parse_data_or_code: a missing section yields None instead of
\* the panic of expect.
parse_data_or_code_NoExpect(addr) ==
    LET sec == section_by_addr(addr)
    IN IF sec = 0 THEN [status |-> "none", block |-> NoBlock]
       ELSE IF instruction_by_addr(addr) THEN
            [status |-> "some", block |-> Block("Instruction", addr, sec, instruction_width(addr))]
       ELSE IF error_by_addr(addr) THEN
            [status |-> "some", block |-> Block("Error", addr, sec, error_size(addr))]
       ELSE LET baddr == ScanParse(sections[sec], addr, addr)
                bytes_len == baddr - addr
            IN IF bytes_len > 0
               THEN [status |-> "some", block |-> Block("Bytes", addr, sec, bytes_len)]
               ELSE [status |-> "none", block |-> NoBlock]

\* Mutation of parse_data_or_code: an empty run yields a Bytes block too.
parse_data_or_code_EmptyRun(addr) ==
    LET sec == section_by_addr(addr)
    IN IF sec = 0 THEN [status |-> "panic", block |-> NoBlock]
       ELSE IF instruction_by_addr(addr) THEN
            [status |-> "some", block |-> Block("Instruction", addr, sec, instruction_width(addr))]
       ELSE IF error_by_addr(addr) THEN
            [status |-> "some", block |-> Block("Error", addr, sec, error_size(addr))]
       ELSE LET baddr == ScanParse(sections[sec], addr, addr)
                bytes_len == baddr - addr
            IN [status |-> "some", block |-> Block("Bytes", addr, sec, bytes_len)]

\* parse_data_or_code(addr): [status, block] with status "some" (Some(block)),
\* "none" (None) or "panic" (the expect on section_by_addr).
parse_data_or_code(addr) ==
    LET sec == section_by_addr(addr)
    IN IF sec = 0 THEN [status |-> "panic", block |-> NoBlock]
       ELSE IF instruction_by_addr(addr) THEN
            [status |-> "some", block |-> Block("Instruction", addr, sec, instruction_width(addr))]
       ELSE IF error_by_addr(addr) THEN
            [status |-> "some", block |-> Block("Error", addr, sec, error_size(addr))]
       ELSE LET baddr == ScanParse(sections[sec], addr, addr)
                bytes_len == baddr - addr
            IN IF bytes_len > 0
               THEN [status |-> "some", block |-> Block("Bytes", addr, sec, bytes_len)]
               ELSE [status |-> "none", block |-> NoBlock]

\* Mutation of SectionMarkers: SectionStart is pushed before SectionEnd.
SectionMarkersStartFirst(addr) ==
    LET section_start == FindSection({i \in DOMAIN sections : sections[i].start = addr})
        section_end == FindSection({i \in DOMAIN sections : sections[i].end = addr})
    IN IF section_start # 0 /\ section_end # 0
       THEN <<Block("SectionStart", addr, section_start, 0),
              Block("SectionEnd", addr, section_end, 0)>>
       ELSE IF section_start # 0 THEN <<Block("SectionStart", addr, section_start, 0)>>
       ELSE IF section_end # 0 THEN <<Block("SectionEnd", addr, section_end, 0)>>
       ELSE <<>>

\* The match on (section_start, section_end) of parse_blocks.
SectionMarkers(addr) ==
    LET section_start == FindSection({i \in DOMAIN sections : sections[i].start = addr})
        section_end == FindSection({i \in DOMAIN sections : sections[i].end = addr})
    IN IF section_start # 0 /\ section_end # 0
       THEN <<Block("SectionEnd", addr, section_end, 0),
              Block("SectionStart", addr, section_start, 0)>>
       ELSE IF section_start # 0 THEN <<Block("SectionStart", addr, section_start, 0)>>
       ELSE IF section_end # 0 THEN <<Block("SectionEnd", addr, section_end, 0)>>
       ELSE <<>>

\* Mutation of parse_blocks: the Label is pushed whether or not a real block
\* was produced.
parse_blocks_LabelAlways(addr) ==
    LET markers == SectionMarkers(addr)
        real == parse_data_or_code(addr)
        label == IF get_func_by_addr(addr) THEN <<Block("Label", addr, 0, 0)>> ELSE <<>>
    IN IF real.status = "panic" THEN [status |-> "panic", blocks |-> <<>>]
       ELSE IF real.status = "some"
            THEN [status |-> "ok", blocks |-> markers \o label \o <<real.block>>]
            ELSE [status |-> "ok", blocks |-> markers \o label]

\* parse_blocks(addr): [status, blocks], status "ok" or "panic".
parse_blocks(addr) ==
    LET markers == SectionMarkers(addr)
        real == parse_data_or_code(addr)
        label == IF get_func_by_addr(addr) THEN <<Block("Label", addr, 0, 0)>> ELSE <<>>
    IN IF real.status = "panic" THEN [status |-> "panic", blocks |-> <<>>]
       ELSE IF real.status = "some"
            THEN [status |-> "ok", blocks |-> markers \o label \o <<real.block>>]
            ELSE [status |-> "ok", blocks |-> markers]

\* Block::len.
BlockLen(b) ==
    CASE b.kind = "SectionStart" -> 2
      [] b.kind = "SectionEnd" -> 2
      [] b.kind = "Label" -> 2
      [] b.kind = "Instruction" -> 1
      [] b.kind = "Error" -> 1
      [] b.kind = "Bytes" -> (b.len \div ChunkWidth) + 1

\* --------------------------------------------------- Boundary Computer
\* Mutation of ScanWalk: the scan does not stop at a labelled address.
RECURSIVE ScanWalk_NoLabel(_, _, _, _)
ScanWalk_NoLabel(section, addr, baddr, wrapped) ==
    IF baddr = section.end THEN [baddr |-> baddr, wrapped |-> wrapped]
    ELSE IF instruction_by_addr(baddr) THEN [baddr |-> baddr, wrapped |-> wrapped]
    ELSE IF error_by_addr(baddr) THEN [baddr |-> baddr, wrapped |-> wrapped]
    ELSE IF baddr = UsizeMax THEN ScanWalk_NoLabel(section, addr, 0, TRUE)
    ELSE ScanWalk_NoLabel(section, addr, baddr + 1, wrapped)

\* Forward scan of compute_section_boundaries: the walk's addr may have left
\* the section, so baddr += 1 can overflow; wrapped records that it did.
RECURSIVE ScanWalk(_, _, _, _)
ScanWalk(section, addr, baddr, wrapped) ==
    IF baddr = section.end THEN [baddr |-> baddr, wrapped |-> wrapped]
    ELSE IF instruction_by_addr(baddr) THEN [baddr |-> baddr, wrapped |-> wrapped]
    ELSE IF error_by_addr(baddr) THEN [baddr |-> baddr, wrapped |-> wrapped]
    ELSE IF addr # baddr /\ get_func_by_addr(baddr)
         THEN [baddr |-> baddr, wrapped |-> wrapped]
    ELSE IF baddr = UsizeMax THEN ScanWalk(section, addr, 0, TRUE)
    ELSE ScanWalk(section, addr, baddr + 1, wrapped)

\* boundaries.sort_unstable()
SortUnstable(s) == SortSeq(s, LAMBDA a, b : a < b)

\* Mutation of Dedup: the call is left out.
DedupSkipped(s) == s

\* boundaries.dedup(): drops every element equal to the one before it.
RECURSIVE Dedup(_)
Dedup(s) ==
    IF Len(s) <= 1 THEN s
    ELSE LET rest == Dedup(Tail(s))
         IN IF Head(s) = Head(rest) THEN rest ELSE <<Head(s)>> \o rest

\* No terminating walk pushes more than this: it visits an address once and
\* pushes at most twice there, plus section.start and section.end.
WalkCap == 2 * Modulus + 2

\* thread-local prologue of compute_section_boundaries, run at spawn:
\* addr = section.addr, boundaries = [section.start].
compute_block_boundaries ==
    /\ mpc = "idle"
    /\ mpc' = "running"
    /\ wpc' = [i \in Threads |-> "run"]
    /\ waddr' = [i \in Threads |-> sections[i].addr]
    /\ wbnd' = [i \in Threads |-> <<sections[i].start>>]
    /\ joined' = 0
    /\ boundaries' = <<>>
    /\ UNCHANGED <<inputs, build, parsevars, lenvars>>

\* addr += width (or addr = baddr after a scan that wrapped): without
\* overflow the worker goes on; on overflow a debug build panics and a
\* release build wraps.
Advance(i, pushed, next, overflow) ==
    IF ~overflow
    THEN /\ wbnd' = [wbnd EXCEPT ![i] = pushed]
         /\ waddr' = [waddr EXCEPT ![i] = next]
         /\ UNCHANGED <<wpc, build>>
    ELSE \/ /\ build = "any"
            /\ wpc' = [wpc EXCEPT ![i] = "panic"]
            /\ wbnd' = [wbnd EXCEPT ![i] = pushed]
            /\ UNCHANGED <<waddr, build>>
         \/ /\ build' = "release"
            /\ wbnd' = [wbnd EXCEPT ![i] = pushed]
            /\ waddr' = [waddr EXCEPT ![i] = next % Modulus]
            /\ UNCHANGED wpc

\* Mutation of compute_section_boundaries: the address of a decoder error is
\* not pushed.
compute_section_boundaries_NoErrPush(i) ==
    /\ wpc[i] = "run"
    /\ Len(wbnd[i]) < WalkCap
    /\ LET section == sections[i]
           addr == waddr[i]
           labelled == IF get_func_by_addr(addr)
                       THEN Append(wbnd[i], addr) ELSE wbnd[i]
       IN IF addr = section.end
          THEN /\ wbnd' = [wbnd EXCEPT ![i] = Append(wbnd[i], section.end)]
               /\ wpc' = [wpc EXCEPT ![i] = "done"]
               /\ UNCHANGED <<waddr, build>>
          ELSE IF instruction_by_addr(addr)
          THEN Advance(i, Append(labelled, addr), addr + instruction_width(addr),
                       addr + instruction_width(addr) > UsizeMax)
          ELSE IF error_by_addr(addr)
          THEN Advance(i, labelled, addr + error_size(addr),
                       addr + error_size(addr) > UsizeMax)
          ELSE LET scan == ScanWalk(section, addr, addr, FALSE)
                   bytes_len == (scan.baddr - addr) % Modulus
               IN IF bytes_len > 0
                  THEN Advance(i, Append(labelled, addr), scan.baddr, scan.wrapped)
                  ELSE Advance(i, labelled, addr, scan.wrapped)
    /\ UNCHANGED <<inputs, mpc, joined, boundaries, parsevars, lenvars>>

\* One iteration of the outer loop of compute_section_boundaries in the
\* worker of section i.
compute_section_boundaries(i) ==
    /\ wpc[i] = "run"
    /\ Len(wbnd[i]) < WalkCap
    /\ LET section == sections[i]
           addr == waddr[i]
           labelled == IF get_func_by_addr(addr)
                       THEN Append(wbnd[i], addr) ELSE wbnd[i]
       IN IF addr = section.end
          THEN /\ wbnd' = [wbnd EXCEPT ![i] = Append(wbnd[i], section.end)]
               /\ wpc' = [wpc EXCEPT ![i] = "done"]
               /\ UNCHANGED <<waddr, build>>
          ELSE IF instruction_by_addr(addr)
          THEN Advance(i, Append(labelled, addr), addr + instruction_width(addr),
                       addr + instruction_width(addr) > UsizeMax)
          ELSE IF error_by_addr(addr)
          THEN Advance(i, Append(labelled, addr), addr + error_size(addr),
                       addr + error_size(addr) > UsizeMax)
          ELSE LET scan == ScanWalk(section, addr, addr, FALSE)
                   bytes_len == (scan.baddr - addr) % Modulus
               IN IF bytes_len > 0
                  THEN Advance(i, Append(labelled, addr), scan.baddr, scan.wrapped)
                  ELSE Advance(i, labelled, addr, scan.wrapped)
    /\ UNCHANGED <<inputs, mpc, joined, boundaries, parsevars, lenvars>>

\* Mutation of Join: the parent takes a thread's list without waiting for
\* the thread to finish.
Join_NoWait ==
    /\ mpc = "running"
    /\ joined < Len(sections)
    /\ LET i == joined + 1
       IN \/ /\ wpc[i] \in {"run", "done"}
             /\ boundaries' = boundaries \o wbnd[i]
             /\ joined' = i
             /\ UNCHANGED mpc
          \/ /\ wpc[i] = "panic"
             /\ mpc' = "unwinding"
             /\ UNCHANGED <<boundaries, joined>>
    /\ UNCHANGED <<inputs, build, wpc, waddr, wbnd, parsevars, lenvars>>

\* Mutation of Join: a panicked thread is skipped (its Err is not unwrapped).
Join_IgnorePanic ==
    /\ mpc = "running"
    /\ joined < Len(sections)
    /\ LET i == joined + 1
       IN \/ /\ wpc[i] = "done"
             /\ boundaries' = boundaries \o wbnd[i]
             /\ joined' = i
             /\ UNCHANGED mpc
          \/ /\ wpc[i] = "panic"
             /\ joined' = i
             /\ UNCHANGED <<boundaries, mpc>>
    /\ UNCHANGED <<inputs, build, wpc, waddr, wbnd, parsevars, lenvars>>

\* thread.join().unwrap() of the next thread, in spawn order.
Join ==
    /\ mpc = "running"
    /\ joined < Len(sections)
    /\ LET i == joined + 1
       IN \/ /\ wpc[i] = "done"
             /\ boundaries' = boundaries \o wbnd[i]
             /\ joined' = i
             /\ UNCHANGED mpc
          \/ /\ wpc[i] = "panic"
             /\ mpc' = "unwinding"
             /\ UNCHANGED <<boundaries, joined>>
    /\ UNCHANGED <<inputs, build, wpc, waddr, wbnd, parsevars, lenvars>>

\* The unwrap panicked: thread::scope still waits for every spawned thread
\* and then the panic leaves compute_block_boundaries.
ScopeUnwind ==
    /\ mpc = "unwinding"
    /\ \A i \in Threads : wpc[i] # "run"
    /\ mpc' = "panicked"
    /\ UNCHANGED <<inputs, build, wpc, waddr, wbnd, joined, boundaries, parsevars, lenvars>>

\* All threads joined: sort_unstable, dedup, return.
SortDedupReturn ==
    /\ mpc = "running"
    /\ joined = Len(sections)
    /\ boundaries' = Dedup(SortUnstable(boundaries))
    /\ mpc' = "returned"
    /\ UNCHANGED <<inputs, build, wpc, waddr, wbnd, joined, parsevars, lenvars>>

\* A second call of compute_block_boundaries on the same Processor, after
\* the first one returned; `last` keeps the list the first call returned.
Recompute ==
    /\ mpc = "returned"
    /\ ~last.returned
    /\ last' = [returned |-> TRUE, list |-> boundaries]
    /\ mpc' = "running"
    /\ wpc' = [i \in Threads |-> "run"]
    /\ waddr' = [i \in Threads |-> sections[i].addr]
    /\ wbnd' = [i \in Threads |-> <<sections[i].start>>]
    /\ joined' = 0
    /\ boundaries' = <<>>
    /\ UNCHANGED <<inputs, build, parsevars, block, lines, stream, guivars>>

\* The caller materializes the blocks at an address.
ParseBlocks(addr) ==
    /\ mpc = "returned"
    /\ paddr' = addr
    /\ presult' = parse_blocks(addr)
    /\ UNCHANGED <<inputs, walkvars, lenvars>>

\* A call of Block::len on `block`.
Len_ ==
    /\ lines = 0
    /\ block # NoBlock
    /\ lines' = BlockLen(block)
    /\ UNCHANGED <<inputs, walkvars, parsevars, block, last, stream, guivars>>

\* ------------------------------------------------------- Block::tokenize
\* A token of the stream: what it shows (kind), the address a prefix is
\* formatted from, and the range [lo, hi) of the block's bytes a hex token
\* encodes. Text and color of the fixed tokens are left out.
Tok(kind, addr, lo, hi) == [kind |-> kind, addr |-> addr, lo |-> lo, hi |-> hi]
Fixed(kind) == Tok(kind, 0, 0, 0)
\* A token some earlier tokenize call pushed.
Earlier == Fixed("earlier")

\* TokenStream::push and push_owned: one token more at the end of inner.
push(s, tok) == Append(s, tok)
push_owned(s, tok) == Append(s, tok)

\* Vec::pop on stream.inner: drops the last token, if there is one.
Pop(s) == IF s = <<>> THEN s ELSE SubSeq(s, 1, Len(s) - 1)

\* One round of the loop over the chunks: the address prefix of addr + off,
\* the hex of the chunk and a newline are pushed; off += chunk.len(). The
\* chunk is the next 32 bytes, or what is left of the bytes.
ChunkRound(st, addr, n) ==
    LET len == IF n - st.off < ChunkWidth THEN n - st.off ELSE ChunkWidth
        prefixed == push_owned(st.s, Tok("addr", addr + st.off, 0, 0))
        hexed == push_owned(prefixed, Tok("hex", 0, st.off, st.off + len))
    IN [s |-> push(hexed, Fixed("newline")), off |-> st.off + len]

\* The rounds lo..hi of the loop, in order, from the stream and off of st;
\* chunks yields nothing more once off has reached the end of the bytes.
RECURSIVE ChunkRounds(_, _, _, _, _)
ChunkRounds(st, addr, n, lo, hi) ==
    IF st.off >= n \/ lo > hi THEN st
    ELSE IF lo = hi THEN ChunkRound(st, addr, n)
    ELSE LET mid == (lo + hi) \div 2
         IN ChunkRounds(ChunkRounds(st, addr, n, lo, mid), addr, n, mid + 1, hi)

\* The loop over bytes.chunks(32).take(100): chunks yields one chunk per
\* started 32 bytes, take(100) stops after MaxLines of them; off starts at 0.
ChunkTokens(s, addr, n) ==
    LET chunks == (n + ChunkWidth - 1) \div ChunkWidth
        taken == IF chunks < MaxLines THEN chunks ELSE MaxLines
    IN ChunkRounds([s |-> s, off |-> 0], addr, n, 1, taken).s

\* The arms of Block::tokenize other than Bytes. The symbol's name and the
\* instruction's token list, extended into the stream as they are, stand as
\* one token each.
TokenizeOther(s, b) ==
    CASE b.kind = "Label" -> s \o <<Fixed("<"), Fixed("name"), Fixed(">")>>
      [] b.kind \in MarkerKinds ->
            s \o <<Fixed(b.kind), Fixed("name"), Fixed("{"), Fixed("kind"), Fixed("}"),
                   Fixed("start"), Fixed("-"), Fixed("end")>>
      [] b.kind = "Instruction" ->
            s \o <<Tok("addr", b.addr, 0, 0), Tok("hex", 0, 0, b.len), Fixed("inst")>>
      [] b.kind = "Error" ->
            s \o <<Tok("addr", b.addr, 0, 0), Tok("hex", 0, 0, b.len),
                   Fixed("<"), Fixed("err"), Fixed(">")>>

\* Mutation of TokenizeInto: the last newline is not popped.
TokenizeInto_NoPop(s, b) ==
    IF b.kind = "Bytes" THEN ChunkTokens(s, b.addr, b.len)
    ELSE TokenizeOther(s, b)

\* Block::tokenize(stream): the stream after the call.
TokenizeInto(s, b) ==
    IF b.kind = "Bytes" THEN Pop(ChunkTokens(s, b.addr, b.len))
    ELSE TokenizeOther(s, b)

Untouched(s) == \A k \in DOMAIN s : s[k] = Earlier

\* A call of Block::tokenize on `block` with the stream.
Tokenize ==
    /\ block # NoBlock
    /\ Untouched(stream)
    /\ stream' = TokenizeInto(stream, block)
    /\ UNCHANGED <<inputs, walkvars, parsevars, block, lines, last, guivars>>

\* ------------------------------------------- shader cache (gui/utils.rs)
\* Source texts: 0 is one that does not compile, c >= 1 compiles to the
\* binary Binary(c).
Contents == 0..MaxSrc
Times == 0..MaxTime
Stages == {"vertex", "unknown"}

\* The cache file is a sequence of items: the u128 timestamp, then the
\* words of the SPIR-V binary.
Ts(t) == [kind |-> "ts", v |-> t, k |-> 0]
Word(c, k) == [kind |-> "word", v |-> c, k |-> k]
\* spv::write_vec of the module parsed from source c.
Binary(c) == [k \in 1..c |-> Word(c, k)]

NoFile == [exists |-> FALSE, data |-> <<>>]
NoResult == [status |-> "none", binary |-> <<>>]
NotGenerating ==
    [pc |-> "idle", stage |-> "vertex", content |-> 0, meta |-> 0, pos |-> 1,
     res |-> NoResult]

\* write_u128 / write_all on a file opened with write(true).create(true):
\* the items go to the file position, over what is there; what lies behind
\* them stays.
WriteAt(data, pos, items) ==
    LET end == IF Len(data) > pos + Len(items) - 1 THEN Len(data)
               ELSE pos + Len(items) - 1
    IN [i \in 1..end |-> IF pos <= i /\ i < pos + Len(items)
                         THEN items[i - pos + 1] ELSE data[i]]

\* read_to_end after read_u128: the items behind the timestamp.
ReadToEnd(data) == SubSeq(data, 2, Len(data))

generate_vulkan_shader_module(stage) ==
    /\ sh.pc = "idle"
    /\ sh' = [NotGenerating EXCEPT !.pc = "retrieve", !.stage = stage]
    /\ UNCHANGED <<src, cache, stale>>
    /\ UNCHANGED <<inputs, walkvars, parsevars, block, lines, last, stream, loadvars>>

\* retrieve_cached_module: None sends the caller on to compile_shader.
retrieve_cached_module ==
    /\ sh.pc = "retrieve"
    /\ IF ~src.exists \/ ~cache.exists \/ cache.data = <<>>
       THEN sh' = [sh EXCEPT !.pc = "compile"]
       ELSE IF src.mtime = cache.data[1].v
       THEN sh' = [sh EXCEPT !.pc = "done",
                             !.res = [status |-> "cached", binary |-> ReadToEnd(cache.data)]]
       ELSE sh' = [sh EXCEPT !.pc = "compile"]
    /\ UNCHANGED <<src, cache, stale>>
    /\ UNCHANGED <<inputs, walkvars, parsevars, block, lines, last, stream, loadvars>>

\* compile_shader: File::open of the source, OpenOptions...open of the
\* cache (created empty when missing, kept as it is otherwise), the match
\* on stage.
compile_shader_open ==
    /\ sh.pc = "compile"
    /\ IF ~src.exists
       THEN /\ sh' = [sh EXCEPT !.pc = "done", !.res = [status |-> "NotFound", binary |-> <<>>]]
            /\ UNCHANGED cache
       ELSE /\ cache' = [exists |-> TRUE, data |-> cache.data]
            /\ IF sh.stage = "unknown"
               THEN sh' = [sh EXCEPT !.pc = "done",
                                     !.res = [status |-> "UnknownShaderStage", binary |-> <<>>]]
               ELSE sh' = [sh EXCEPT !.pc = "read", !.pos = 1]
    /\ UNCHANGED <<src, stale>>
    /\ UNCHANGED <<inputs, walkvars, parsevars, block, lines, last, stream, loadvars>>

\* read_to_string, glsl parse, validate, spv::write_vec.
compile_shader_read ==
    /\ sh.pc = "read"
    /\ IF src.content = 0
       THEN sh' = [sh EXCEPT !.pc = "done",
                             !.res = [status |-> "CompilationFailed", binary |-> <<>>]]
       ELSE sh' = [sh EXCEPT !.pc = "stamp", !.content = src.content]
    /\ UNCHANGED <<src, cache, stale>>
    /\ UNCHANGED <<inputs, walkvars, parsevars, block, lines, last, stream, loadvars>>

\* src_file.metadata().modified() as milliseconds.
compile_shader_stamp ==
    /\ sh.pc = "stamp"
    /\ sh' = [sh EXCEPT !.pc = "write_header", !.meta = src.mtime]
    /\ UNCHANGED <<src, cache, stale>>
    /\ UNCHANGED <<inputs, walkvars, parsevars, block, lines, last, stream, loadvars>>

\* cache_file.write_u128(date_modified).
compile_shader_write_header ==
    /\ sh.pc = "write_header"
    /\ cache' = [cache EXCEPT !.data = WriteAt(cache.data, sh.pos, <<Ts(sh.meta)>>)]
    /\ sh' = [sh EXCEPT !.pc = "write_binary", !.pos = sh.pos + 1]
    /\ UNCHANGED <<src, stale>>
    /\ UNCHANGED <<inputs, walkvars, parsevars, block, lines, last, stream, loadvars>>

\* cache_file.write_all(binary) and the Ok(module) of compile_shader.
compile_shader_write_binary ==
    /\ sh.pc = "write_binary"
    /\ cache' = [cache EXCEPT !.data = WriteAt(cache.data, sh.pos, Binary(sh.content))]
    /\ sh' = [sh EXCEPT !.pc = "done", !.pos = sh.pos + sh.content,
                        !.res = [status |-> "compiled", binary |-> Binary(sh.content)]]
    /\ stale' = FALSE
    /\ UNCHANGED src
    /\ UNCHANGED <<inputs, walkvars, parsevars, block, lines, last, stream, loadvars>>

\* The caller has the result; the next call can start.
ShaderReturn ==
    /\ sh.pc = "done"
    /\ sh' = [sh EXCEPT !.pc = "idle"]
    /\ UNCHANGED <<src, cache, stale>>
    /\ UNCHANGED <<inputs, walkvars, parsevars, block, lines, last, stream, loadvars>>

\* Somebody writes another text into the source file, at any moment; the
\* file system stamps it with the time of its clock, which never runs
\* backwards and may not have ticked since the last write.
ModifySource(c, m) ==
    /\ c # src.content \/ ~src.exists
    /\ src.mtime <= m
    /\ src' = [exists |-> TRUE, mtime |-> m, content |-> c]
    /\ stale' = TRUE
    /\ UNCHANGED <<cache, sh>>
    /\ UNCHANGED <<inputs, walkvars, parsevars, block, lines, last, stream, loadvars>>

\* The cache file is removed from the temporary directory between calls.
RemoveCache ==
    /\ sh.pc = "idle"
    /\ cache.exists
    /\ cache' = NoFile
    /\ UNCHANGED <<src, sh, stale>>
    /\ UNCHANGED <<inputs, walkvars, parsevars, block, lines, last, stream, loadvars>>

\* -------------------------------------- load_dissasembly (gui/mod.rs)
Tasks == 1..MaxTasks
Unlocked == [holder |-> 0, poisoned |-> FALSE]
NotSpawned == [pc |-> "none", file |-> 0, next |-> 1]

\* Paths handed to load_dissasembly. Path 0 is a file that cannot be read
\* or parsed (one of the expect calls panics); path f > 0 decodes to f
\* instructions.
Paths == 0..MaxDecoded

\* The k-th line the InstructionStream of file f yields, as pushed by
\* task t. The task is recorded for the claims only: the list itself
\* holds the line.
Line(t, f, k) == [task |-> t, file |-> f, k |-> k]

\* The lines the InstructionStream of file f yields, in stream order.
Decoded(f) == [k \in 1..f |-> [file |-> f, k |-> k]]

\* The lines of the list without the record of who pushed them.
Shown(list) == [i \in 1..Len(list) |-> [file |-> list[i].file, k |-> list[i].k]]

\* load_dissasembly: the caller (start-up with a path argument, a dropped
\* file, the file dialog of Ctrl+O) spawns a task for a path and returns.
load_dissasembly(t, f) ==
    /\ tasks[t].pc = "none"
    /\ tasks' = [tasks EXCEPT ![t] = [pc |-> "lock", file |-> f, next |-> 1]]
    /\ UNCHANGED <<inputs, walkvars, parsevars, block, lines, last, stream, shadervars,
                   dissasembly, mutex, show_donut>>

\* The same step with a lock call that does not wait for the holder.
lock_NoWait(t) ==
    /\ tasks[t].pc = "lock"
    /\ IF mutex.poisoned
         THEN /\ tasks' = [tasks EXCEPT ![t].pc = "panicked"]
              /\ UNCHANGED <<mutex, show_donut>>
         ELSE /\ mutex' = [mutex EXCEPT !.holder = t]
              /\ show_donut' = TRUE
              /\ tasks' = [tasks EXCEPT ![t].pc = "read"]
    /\ UNCHANGED <<inputs, walkvars, parsevars, block, lines, last, stream, shadervars,
                   dissasembly>>

\* dissasembly.lock().unwrap(), then show_donut.store(true): the task waits
\* until no task holds the mutex; on a poisoned mutex lock returns an error,
\* unwrap panics and the guard inside the error is dropped.
lock(t) ==
    /\ tasks[t].pc = "lock"
    /\ mutex.holder = 0
    /\ IF mutex.poisoned
         THEN /\ tasks' = [tasks EXCEPT ![t].pc = "panicked"]
              /\ UNCHANGED <<mutex, show_donut>>
         ELSE /\ mutex' = [mutex EXCEPT !.holder = t]
              /\ show_donut' = TRUE
              /\ tasks' = [tasks EXCEPT ![t].pc = "read"]
    /\ UNCHANGED <<inputs, walkvars, parsevars, block, lines, last, stream, shadervars,
                   dissasembly>>

\* Reading and parsing the binary, its symbols and its .text section, up
\* to building the InstructionStream: each failure is an expect that
\* panics, and the unwinding drops the guard, which poisons the mutex.
ReadBinary(t) ==
    /\ tasks[t].pc = "read"
    /\ IF tasks[t].file = 0
         THEN /\ tasks' = [tasks EXCEPT ![t].pc = "panicked"]
              /\ mutex' = [holder |-> 0, poisoned |-> TRUE]
         ELSE /\ tasks' = [tasks EXCEPT ![t].pc = "push"]
              /\ UNCHANGED mutex
    /\ UNCHANGED <<inputs, walkvars, parsevars, block, lines, last, stream, shadervars,
                   dissasembly, show_donut>>

\* One round of the loop "for inst in stream": dissasembly.push(inst).
PushLine(t) ==
    /\ tasks[t].pc = "push"
    /\ tasks[t].next <= tasks[t].file
    /\ dissasembly' = Append(dissasembly, Line(t, tasks[t].file, tasks[t].next))
    /\ tasks' = [tasks EXCEPT ![t].next = @ + 1]
    /\ UNCHANGED <<inputs, walkvars, parsevars, block, lines, last, stream, shadervars,
                   mutex, show_donut>>

\* The stream is exhausted: the task prints the time it took and ends,
\* which drops the guard.
TaskEnd(t) ==
    /\ tasks[t].pc = "push"
    /\ tasks[t].next > tasks[t].file
    /\ tasks' = [tasks EXCEPT ![t].pc = "done"]
    /\ mutex' = [mutex EXCEPT !.holder = 0]
    /\ UNCHANGED <<inputs, walkvars, parsevars, block, lines, last, stream, shadervars,
                   dissasembly, show_donut>>

\* ------------------------------------------------------- initial states
\* One fact of the decoder view or the symbol index.
Facts ==
    {[kind |-> k, addr |-> a, width |-> w] : k \in {"inst", "err"}, a \in Addr, w \in Widths}
    \cup {[kind |-> "func", addr |-> a, width |-> 0] : a \in Addr}

\* The sets of at most n facts, no two of the same kind at one address.
RECURSIVE FactSets(_)
FactSets(n) ==
    IF n = 0 THEN {{}}
    ELSE LET smaller == FactSets(n - 1)
         IN smaller \cup
            {F \cup {f} : F \in smaller,
                          f \in {g \in Facts : TRUE}}

Consistent(F) == \A f, g \in F : (f.kind = g.kind /\ f.addr = g.addr) => f = g

WidthAt(F, k, a) == (CHOOSE f \in F : f.kind = k /\ f.addr = a).width

\* Section: start <= addr <= end.
Sections == {[start |-> s, addr |-> a, end |-> e] : s \in Addr, a \in Addr, e \in Addr}
ValidSection(sec) == sec.start <= sec.addr /\ sec.addr <= sec.end

NotCalled == [status |-> "none", blocks |-> <<>>]
NoCall == [returned |-> FALSE, list |-> <<>>]

\* No shader module was asked for and no file was loaded.
ShaderIdle ==
    /\ src = [exists |-> FALSE, mtime |-> 0, content |-> 0]
    /\ cache = NoFile
    /\ sh = NotGenerating
    /\ stale = FALSE

LoadIdle ==
    /\ dissasembly = <<>>
    /\ mutex = Unlocked
    /\ tasks = [t \in Tasks |-> NotSpawned]
    /\ show_donut = FALSE

InitCore ==
    /\ build = "any"
    /\ mpc = "idle"
    /\ wpc = [i \in Threads |-> "idle"]
    /\ waddr = [i \in Threads |-> 0]
    /\ wbnd = [i \in Threads |-> <<>>]
    /\ joined = 0
    /\ boundaries = <<>>
    /\ paddr = 0
    /\ presult = NotCalled
    /\ last = NoCall

InitEngine == InitCore /\ ShaderIdle /\ LoadIdle

\* The block engine is not used.
EngineUnused ==
    /\ sections = <<>>
    /\ insts = <<>>
    /\ errs = <<>>
    /\ funcs = {}
    /\ InitCore
    /\ block = NoBlock
    /\ lines = 0
    /\ stream = <<>>

\* The shader source is missing or holds any source at time 0; no cache
\* file exists yet.
InitShader ==
    /\ EngineUnused
    /\ LoadIdle
    /\ \E e \in BOOLEAN : \E c \in Contents :
          src = [exists |-> e, mtime |-> 0, content |-> IF e THEN c ELSE 0]
    /\ cache = NoFile
    /\ sh = NotGenerating
    /\ stale = FALSE

\* The gui with the engine and the shader cache left alone: the list is
\* empty, the mutex free and no task spawned (RenderContext in main).
InitLoad ==
    /\ EngineUnused
    /\ ShaderIdle
    /\ LoadIdle

InitView(n) ==
    \E F \in {G \in FactSets(n) : Consistent(G)} :
        /\ insts = [a \in {f.addr : f \in {g \in F : g.kind = "inst"}} |-> WidthAt(F, "inst", a)]
        /\ errs = [a \in {f.addr : f \in {g \in F : g.kind = "err"}} |-> WidthAt(F, "err", a)]
        /\ funcs = {f.addr : f \in {g \in F : g.kind = "func"}}

\* One section, any start <= addr <= end, up to MaxItems facts.
InitOne ==
    /\ \E sec \in {s \in Sections : ValidSection(s)} : sections = <<sec>>
    /\ InitView(MaxItems)
    /\ InitEngine
    /\ block = NoBlock
    /\ lines = 0
    /\ stream = <<>>

\* A decoder view that breaks the decoder's contract: items of width 0 too.
FaultyFacts ==
    Facts \cup {[kind |-> k, addr |-> a, width |-> 0] : k \in {"inst", "err"}, a \in Addr}

RECURSIVE FaultyFactSets(_)
FaultyFactSets(n) ==
    IF n = 0 THEN {{}}
    ELSE LET smaller == FaultyFactSets(n - 1)
         IN smaller \cup {F \cup {f} : F \in smaller, f \in FaultyFacts}

\* One section that skips no leading region, up to MaxItems facts of any
\* width from 0.
InitFaulty ==
    /\ \E sec \in {s \in Sections : ValidSection(s) /\ s.addr = s.start} :
           sections = <<sec>>
    /\ \E F \in {G \in FaultyFactSets(MaxItems) : Consistent(G)} :
        /\ insts = [a \in {f.addr : f \in {g \in F : g.kind = "inst"}} |-> WidthAt(F, "inst", a)]
        /\ errs = [a \in {f.addr : f \in {g \in F : g.kind = "err"}} |-> WidthAt(F, "err", a)]
        /\ funcs = {f.addr : f \in {g \in F : g.kind = "func"}}
    /\ InitEngine
    /\ block = NoBlock
    /\ lines = 0
    /\ stream = <<>>

\* Two sections that skip no leading region (addr = start), listed in
\* ascending order of start and otherwise in any position relative to each
\* other (apart, adjacent, overlapping, equal, empty), up to MaxItems - 1
\* facts.
InitTwo ==
    /\ \E s1, s2 \in {s \in Sections : ValidSection(s) /\ s.addr = s.start} :
           /\ s1.start <= s2.start
           /\ sections = <<s1, s2>>
    /\ InitView(MaxItems - 1)
    /\ InitEngine
    /\ block = NoBlock
    /\ lines = 0
    /\ stream = <<>>

Init == InitOne \/ InitTwo

\* A block of any variant, a Bytes block of 1..MaxBytes bytes: at address 0
\* with an empty stream, or at address 1 with a stream that holds a token
\* pushed earlier.
InitLen ==
    /\ sections = <<>>
    /\ insts = <<>>
    /\ errs = <<>>
    /\ funcs = {}
    /\ InitEngine
    /\ \E k \in MarkerKinds \cup {"Label", "Instruction", "Error", "Bytes"} :
         \E n \in 1..MaxBytes :
           /\ (k # "Bytes" => n = 1)
           /\ \E a \in {0, 1} :
                 /\ block = Block(k, a, IF k = "Label" THEN 0 ELSE 1,
                                  IF k \in RealKinds THEN n ELSE 0)
                 /\ stream = IF a = 0 THEN <<>> ELSE <<Earlier>>
    /\ lines = 0

Next ==
    \/ compute_block_boundaries
    \/ \E i \in Threads : compute_section_boundaries(i)
    \/ Join
    \/ ScopeUnwind
    \/ SortDedupReturn
    \/ \E addr \in Addr : ParseBlocks(addr)

NextLen == Len_ \/ Tokenize

\* The shader cache and the file system around it.
NextShader ==
    \/ \E stage \in Stages : generate_vulkan_shader_module(stage)
    \/ retrieve_cached_module
    \/ compile_shader_open
    \/ compile_shader_read
    \/ compile_shader_stamp
    \/ compile_shader_write_header
    \/ compile_shader_write_binary
    \/ ShaderReturn
    \/ \E c \in Contents : \E m \in Times : ModifySource(c, m)
    \/ RemoveCache

\* The boundary computer alone, called twice.
NextRerun ==
    \/ compute_block_boundaries
    \/ \E i \in Threads : compute_section_boundaries(i)
    \/ Join
    \/ ScopeUnwind
    \/ SortDedupReturn
    \/ Recompute

Spec == Init /\ [][Next]_vars

SpecLen == InitLen /\ [][NextLen]_vars

SpecRerun == InitTwo /\ [][NextRerun]_vars

SpecFaulty == InitFaulty /\ [][Next]_vars

SpecShader == InitShader /\ [][NextShader]_vars

NextLoad ==
    \/ \E t \in Tasks : \E f \in Paths : load_dissasembly(t, f)
    \/ \E t \in Tasks : lock(t)
    \/ \E t \in Tasks : ReadBinary(t)
    \/ \E t \in Tasks : PushLine(t)
    \/ \E t \in Tasks : TaskEnd(t)

SpecLoad == InitLoad /\ [][NextLoad]_vars

\* Every spawned thread is scheduled until it returns or panics, and the
\* parent runs whenever it is not blocked in a join.
FairSpec ==
    /\ InitOne
    /\ [][Next]_vars
    /\ \A i \in {1} : WF_vars(compute_section_boundaries(i))
    /\ WF_vars(compute_block_boundaries)

\* ================================================================ claims
Reals(blocks) == {k \in DOMAIN blocks : blocks[k].kind \in RealKinds}
Markers(blocks) == {k \in DOMAIN blocks : blocks[k].kind \in MarkerKinds}
Labels(blocks) == {k \in DOMAIN blocks : blocks[k].kind = "Label"}
Called == presult # NotCalled
StrictlyAscending(s) == \A k \in 1..(Len(s) - 1) : s[k] < s[k + 1]

\* C1: the list compute_block_boundaries returns is strictly ascending, so
\* sorted and without an address twice.
C1_MergedSortedUnique ==
    mpc = "returned" => StrictlyAscending(boundaries)

\* Two sections share an edge address and a worker pushed an address twice.
C1_Witness ==
    /\ mpc = "returned"
    /\ Len(sections) = 2
    /\ sections[1].start < sections[1].end
    /\ sections[1].end = sections[2].start
    /\ sections[2].start < sections[2].end
    /\ \E k \in 1..(Len(wbnd[1]) - 1) : wbnd[1][k] = wbnd[1][k + 1]
    /\ Len(boundaries) >= 3

\* C2: the list a per-section walk returns starts with section.start, ends
\* with section.end and holds only addresses of [section.start, section.end].
C2_WalkWithinSection ==
    \A i \in Threads :
        wpc[i] = "done" =>
            /\ wbnd[i][1] = sections[i].start
            /\ wbnd[i][Len(wbnd[i])] = sections[i].end
            /\ \A k \in DOMAIN wbnd[i] :
                   sections[i].start <= wbnd[i][k] /\ wbnd[i][k] <= sections[i].end

\* C3: the list a per-section walk returns is strictly increasing.
C3_WalkStrictlyIncreasing ==
    \A i \in Threads : wpc[i] = "done" => StrictlyAscending(wbnd[i])

\* C4: with every decoded width >= 1, a started per-section walk eventually
\* reaches addr = section.end and returns.
C4_WalkTerminates ==
    [](wpc[1] = "run" => <>(wpc[1] = "done"))

\* The real block parse_blocks(a) returns covers exactly n addresses.
OneRealOfWidth(a, n) ==
    LET r == parse_blocks(a)
    IN /\ r.status = "ok"
       /\ Cardinality(Reals(r.blocks)) = 1
       /\ \A k \in Reals(r.blocks) : r.blocks[k].len = n

\* C5: for consecutive boundaries a < b of a section's list, parse_blocks(a)
\* returns exactly one real block and it covers b - a addresses.
C5_BlockWidthIsGap ==
    \A i \in Threads :
        wpc[i] = "done" =>
            \A k \in 1..(Len(wbnd[i]) - 1) :
                wbnd[i][k] < wbnd[i][k + 1] =>
                    OneRealOfWidth(wbnd[i][k], wbnd[i][k + 1] - wbnd[i][k])

\* Every Bytes block of the outcome r of parse_blocks(a) is a clean run.
CleanBytes(a, r) ==
    r.status = "ok" =>
        \A k \in DOMAIN r.blocks :
            r.blocks[k].kind = "Bytes" =>
                LET b == r.blocks[k]
                IN /\ b.len >= 1
                   /\ b.addr = a
                   /\ sections[b.sec].start <= a
                   /\ a + b.len <= sections[b.sec].end
                   /\ \A x \in a..(a + b.len - 1) :
                          /\ ~instruction_by_addr(x)
                          /\ ~error_by_addr(x)
                          /\ (get_func_by_addr(x) => x = a)

\* C6: a Bytes block of parse_blocks(addr) has at least one byte, holds no
\* instruction start, no error start and no labelled address but addr, and
\* ends at or before the end of its section.
C6_BytesRunClean ==
    /\ mpc = "idle" => \A a \in Addr : CleanBytes(a, parse_blocks(a))
    /\ Called => CleanBytes(paddr, presult)

\* A run of two or more bytes that a label inside the section cut short.
C6_Witness ==
    /\ Called
    /\ presult.status = "ok"
    /\ \E k \in DOMAIN presult.blocks :
           /\ presult.blocks[k].kind = "Bytes"
           /\ presult.blocks[k].len >= 2
           /\ get_func_by_addr(paddr + presult.blocks[k].len)
           /\ paddr + presult.blocks[k].len < sections[presult.blocks[k].sec].end

\* The section markers of the outcome r of parse_blocks(a).
MarkersRight(a, r) ==
    r.status = "ok" =>
        LET starts == {k \in DOMAIN r.blocks : r.blocks[k].kind = "SectionStart"}
            ends == {k \in DOMAIN r.blocks : r.blocks[k].kind = "SectionEnd"}
        IN /\ Cardinality(starts) <= 1
           /\ Cardinality(ends) <= 1
           /\ (starts # {} <=> \E i \in DOMAIN sections : sections[i].start = a)
           /\ (ends # {} <=> \E i \in DOMAIN sections : sections[i].end = a)
           /\ (starts # {} /\ ends # {} => ends = {1} /\ starts = {2})
           /\ \A j, k \in DOMAIN r.blocks :
                  (k \in Markers(r.blocks) /\ j \notin Markers(r.blocks)) => k < j

\* C7: parse_blocks(addr) holds a SectionStart iff a section starts at addr,
\* a SectionEnd iff a section ends at addr, SectionEnd first when both, and
\* every marker before every Label and real block.
C7_SectionMarkers ==
    /\ mpc = "idle" => \A a \in Addr : MarkersRight(a, parse_blocks(a))
    /\ Called => MarkersRight(paddr, presult)

\* Both markers, then a Label and a real block.
C7_Witness ==
    /\ Called
    /\ presult.status = "ok"
    /\ Len(presult.blocks) = 4
    /\ presult.blocks[1].kind = "SectionEnd"
    /\ presult.blocks[2].kind = "SectionStart"
    /\ presult.blocks[1].sec # presult.blocks[2].sec
    /\ presult.blocks[3].kind = "Label"

\* Section A ends at X and another section B starts at X and holds X (B is
\* not empty, so there is content at X inside B).
Adjacent(A, B, X) ==
    /\ A # B
    /\ sections[A].end = X
    /\ sections[B].start = X
    /\ X < sections[B].end

\* The first address after X at which a run of B that starts at X ends.
RunEndIn(B, X) ==
    SetMin({y \in (X + 1)..sections[B].end :
                \/ y = sections[B].end
                \/ instruction_by_addr(y)
                \/ error_by_addr(y)
                \/ get_func_by_addr(y)})

\* The outcome r of parse_blocks(X) carries the content of B at X.
ContentOfB(B, X, r) ==
    r.status = "ok" =>
        /\ \A k \in Reals(r.blocks) : r.blocks[k].sec = B /\ r.blocks[k].addr = X
        /\ Reals(r.blocks) = {Len(r.blocks)}
        /\ LET real == r.blocks[Len(r.blocks)]
           IN IF instruction_by_addr(X)
              THEN real.kind = "Instruction" /\ real.len = instruction_width(X)
              ELSE IF error_by_addr(X)
              THEN real.kind = "Error" /\ real.len = error_size(X)
              ELSE real.kind = "Bytes" /\ X + real.len = RunEndIn(B, X)

LabelRight(a, r) ==
    r.status = "ok" =>
        LET n == Len(r.blocks)
        IN /\ Cardinality(Labels(r.blocks)) <= 1
           /\ Cardinality(Reals(r.blocks)) <= 1
           /\ (Labels(r.blocks) # {} <=> (Reals(r.blocks) # {} /\ get_func_by_addr(a)))
           /\ Reals(r.blocks) \subseteq {n}
           /\ Labels(r.blocks) \subseteq {n - 1}
           /\ \A k \in Markers(r.blocks) : \A l \in Labels(r.blocks) : k < l

\* C9: parse_blocks(addr) holds a Label iff it holds a real block and a
\* function is reported at addr; at most one Label and one real block; the
\* real block is last, the Label right before it and after every marker.
C9_LabelBeforeReal ==
    /\ mpc = "idle" => \A a \in Addr : LabelRight(a, parse_blocks(a))
    /\ Called => LabelRight(paddr, presult)

\* SectionStart, Label, real block at the labelled first address of a section.
C9_Witness ==
    /\ Called
    /\ presult.status = "ok"
    /\ Len(presult.blocks) = 3
    /\ presult.blocks[1].kind = "SectionStart"
    /\ presult.blocks[2].kind = "Label"
    /\ presult.blocks[3].kind \in RealKinds

CeilDiv(n, d) == (n + d - 1) \div d
Min(a, b) == IF a <= b THEN a ELSE b

\* C10: Block::len is 2 for SectionStart, SectionEnd and Label, 1 for
\* Instruction and Error, and min(ceil(n/32), 100) for Bytes of n bytes.
C10_LenTable ==
    lines # 0 =>
        lines = CASE block.kind \in MarkerKinds \cup {"Label"} -> 2
                  [] block.kind \in {"Instruction", "Error"} -> 1
                  [] block.kind = "Bytes" -> Min(CeilDiv(block.len, ChunkWidth), MaxLines)

\* C11: for every block parse_blocks can return, whatever the length of its
\* byte run, 1 <= Block::len <= 100.
C11_LenBounded ==
    lines # 0 => (1 <= lines /\ lines <= MaxLines)

\* C12: a second run of compute_block_boundaries on the same section map,
\* decoder view and symbol index returns the list the first run returned,
\* in whatever order the worker threads ran and finished.
C12_RerunSameList ==
    (mpc = "returned" /\ last.returned) => boundaries = last.list

\* Both runs returned, of two non-empty sections with a decoded item, so
\* that the workers had several steps to interleave.
C12_Witness ==
    /\ mpc = "returned"
    /\ last.returned
    /\ Len(boundaries) >= 4
    /\ \A i \in Threads : sections[i].start < sections[i].end
    /\ sections[1] # sections[2]
    /\ DOMAIN insts \cup DOMAIN errs \cup funcs # {}

\* The item the walk takes at address a (the instruction if there is one,
\* else the error) has width 0.
ZeroWidthAt(a) ==
    IF instruction_by_addr(a) THEN instruction_width(a) = 0
    ELSE error_by_addr(a) /\ error_size(a) = 0

\* C13: a worker that takes a zero-width instruction or error at the address
\* it has reached fails with a fatal error in that step; it does not stay
\* running at the same address.
C13_ZeroWidthFatal ==
    [][\A i \in Threads :
          (/\ wpc[i] = "run"
           /\ waddr[i] # sections[i].end
           /\ ZeroWidthAt(waddr[i])
           /\ wbnd'[i] # wbnd[i])
          => wpc'[i] = "panic"]_vars

\* Both an instruction and a decoder error are reported at address a.
ClashAt(a) == instruction_by_addr(a) /\ error_by_addr(a)

\* C14: a worker that reaches an address at which the decoder reports both
\* an instruction and an error fails with a fatal error in that step; it
\* does not take one of the two and go on.
C14_ClashFatal ==
    [][\A i \in Threads :
          (/\ wpc[i] = "run"
           /\ waddr[i] # sections[i].end
           /\ ClashAt(waddr[i])
           /\ wbnd'[i] # wbnd[i])
          => wpc'[i] = "panic"]_vars

\* C15: once a worker of compute_block_boundaries has panicked, the call
\* has returned no boundary list and holds none to return.
C15_PanicFailsCall ==
    (\E i \in Threads : wpc[i] = "panic") => mpc # "returned"

\* The call has failed on the panic of the second worker, after the list
\* of the first, finished worker was taken at its join.
C15_Witness ==
    /\ Len(sections) = 2
    /\ wpc[1] = "done"
    /\ wpc[2] = "panic"
    /\ joined = 1
    /\ mpc = "panicked"

\* No section's range [start, end], end included, holds address a.
InNoSection(a) ==
    \A i \in DOMAIN sections : ~(sections[i].start <= a /\ a <= sections[i].end)

Aborts(a, res) == InNoSection(a) => (res.status = "panic" /\ res.blocks = <<>>)

\* C16: parse_blocks at an address that lies in no section panics and
\* returns no block list, for every address and in every call made.
C16_OutsideAborts ==
    /\ mpc = "idle" => \A a \in Addr : Aborts(a, parse_blocks(a))
    /\ Called => Aborts(paddr, presult)

\* parse_blocks was called at an address between two sections, at which an
\* instruction is reported, and it panicked.
C16_Witness ==
    /\ Called
    /\ Len(sections) = 2
    /\ sections[1].end < paddr
    /\ paddr < sections[2].start
    /\ instruction_by_addr(paddr)
    /\ presult.status = "panic"

StartsAt(a) == {i \in DOMAIN sections : sections[i].start = a}
EndsAt(a) == {i \in DOMAIN sections : sections[i].end = a}
\* The sections whose half-open range [start, end) holds address a.
Holding(a) == {i \in DOMAIN sections : sections[i].start <= a /\ a < sections[i].end}

OnlyEndOf(s, a, res) ==
    (a = sections[s].end /\ StartsAt(a) = {})
        => res = [status |-> "ok", blocks |-> <<Block("SectionEnd", a, s, 0)>>]

\* C17 as stated: for every section s whose end X starts no section, a
\* call parse_blocks(X) returns exactly [SectionEnd(s)].
C17_EndOnlyMarker ==
    Called => \A s \in DOMAIN sections : OnlyEndOf(s, paddr, presult)

OnlyFirstEnd(a, res) ==
    (/\ EndsAt(a) # {}
     /\ StartsAt(a) = {}
     /\ Holding(a) = {}
     /\ ~instruction_by_addr(a)
     /\ ~error_by_addr(a))
        => res = [status |-> "ok", blocks |-> <<Block("SectionEnd", a, SetMin(EndsAt(a)), 0)>>]

\* C17 amended: when X ends a section, starts none, lies inside no
\* section's [start, end) and carries no instruction or error, parse_blocks(X)
\* returns exactly [SectionEnd] of the first section that ends at X, with no
\* abort, no Label and no real block, labelled or not.
C17_EndOnlyMarkerOutside ==
    /\ mpc = "idle" => \A a \in Addr : OnlyFirstEnd(a, parse_blocks(a))
    /\ Called => OnlyFirstEnd(paddr, presult)

\* parse_blocks was called at the end of a non-empty section, outside every
\* section, where a function is labelled, and returned the marker alone.
C17_Witness ==
    /\ Called
    /\ EndsAt(paddr) # {}
    /\ StartsAt(paddr) = {}
    /\ Holding(paddr) = {}
    /\ \E s \in EndsAt(paddr) : sections[s].start < paddr
    /\ get_func_by_addr(paddr)
    /\ presult.status = "ok"
    /\ Len(presult.blocks) = 1
    /\ presult.blocks[1].kind = "SectionEnd"

InList(a) == \E k \in DOMAIN boundaries : boundaries[k] = a
Pushed(i, a) == \E k \in DOMAIN wbnd[i] : wbnd[i][k] = a

\* The addresses other than a at which a forward scan in section i stops.
Stops(i, a) ==
    {b \in Addr \ {a} : \/ b = sections[i].end
                        \/ instruction_by_addr(b)
                        \/ error_by_addr(b)
                        \/ get_func_by_addr(b)}

\* The first of them after a, in address order and, past the last address,
\* from 0 again.
RunEndOf(i, a) ==
    IF \E b \in Stops(i, a) : b > a
    THEN SetMin({b \in Stops(i, a) : b > a})
    ELSE SetMin(Stops(i, a))

\* a starts an undecoded byte run of a section whose walk pushed a, and the
\* end of the run is in the merged list.
RunStartAt(a) ==
    /\ ~instruction_by_addr(a)
    /\ ~error_by_addr(a)
    /\ \E i \in DOMAIN sections :
          /\ Pushed(i, a)
          /\ a # sections[i].end
          /\ InList(RunEndOf(i, a))

Inner == {a \in Addr : InList(a) /\ StartsAt(a) = {} /\ EndsAt(a) = {}}

KindsAt(a) ==
    {k \in {"inst", "err", "func", "run"} :
        \/ k = "inst" /\ instruction_by_addr(a)
        \/ k = "err" /\ error_by_addr(a)
        \/ k = "func" /\ get_func_by_addr(a)
        \/ k = "run" /\ RunStartAt(a)}

\* C18 as stated: every boundary that is no section edge is of exactly one
\* of the four kinds.
C18_ExactlyOneKind ==
    mpc = "returned" => \A a \in Inner : Cardinality(KindsAt(a)) = 1

\* C18 amended: every boundary that is no section edge is of at least one
\* of the four kinds.
C18_SomeKind ==
    mpc = "returned" => \A a \in Inner : KindsAt(a) # {}

\* A returned list with an inner boundary that is nothing but the start of
\* an undecoded run, and one that is labelled and a run start at once.
C18_Witness ==
    /\ mpc = "returned"
    /\ \E a \in Inner : KindsAt(a) = {"run"}
    /\ \E a \in Inner : KindsAt(a) = {"func", "run"}

\* The first address >= a that is the end of section i, an instruction
\* start, an error start or a labelled address other than a.
FirstStop(i, a) ==
    SetMin({b \in a..sections[i].end :
               \/ b = sections[i].end
               \/ instruction_by_addr(b)
               \/ error_by_addr(b)
               \/ (b # a /\ get_func_by_addr(b))})

ScansAgreeAt(i, a) ==
    (/\ sections[i].start <= a
     /\ a <= sections[i].end
     /\ ~instruction_by_addr(a)
     /\ ~error_by_addr(a))
        => /\ ScanParse(sections[i], a, a) = FirstStop(i, a)
           /\ ScanWalk(sections[i], a, a, FALSE) = [baddr |-> FirstStop(i, a), wrapped |-> FALSE]

BytesOf(blocks) == {k \in DOMAIN blocks : blocks[k].kind = "Bytes"}

\* C19: from every undecoded address of every section, the forward scan of
\* parse_data_or_code and the one of compute_section_boundaries stop at the
\* same address, the first stop from a on; and a Bytes block that
\* parse_blocks returned ends where the walk's scan from its address stops.
C19_ScansAgree ==
    /\ mpc = "idle" => \A i \in DOMAIN sections : \A a \in Addr : ScansAgreeAt(i, a)
    /\ Called => \A k \in BytesOf(presult.blocks) :
          LET blk == presult.blocks[k]
          IN ScanWalk(sections[blk.sec], blk.addr, blk.addr, FALSE).baddr = blk.addr + blk.len

\* parse_blocks returned a Bytes block that starts at a labelled address and
\* ends at another labelled address before the section's end, and the walk
\* of that section pushed both addresses.
C19_Witness ==
    /\ Called
    /\ \E k \in BytesOf(presult.blocks) :
          LET blk == presult.blocks[k]
          IN /\ get_func_by_addr(blk.addr)
             /\ get_func_by_addr(blk.addr + blk.len)
             /\ blk.addr + blk.len < sections[blk.sec].end
             /\ Pushed(blk.sec, blk.addr)
             /\ Pushed(blk.sec, blk.addr + blk.len)

\* L is labelled and lies strictly inside an undecoded region of section i:
\* the walk of i was at an address p of the section before L, and no
\* instruction or error starts from p up to L, which is before the end.
InsideUndecoded(i, L) ==
    /\ get_func_by_addr(L)
    /\ L < sections[i].end
    /\ \E p \in Addr :
          /\ sections[i].addr <= p
          /\ p < L
          /\ Pushed(i, p)
          /\ \A b \in p..L : ~instruction_by_addr(b) /\ ~error_by_addr(b)

\* The boundary before L in the merged list.
Preceding(L) ==
    CHOOSE q \in Addr : /\ InList(q)
                        /\ q < L
                        /\ \A r \in Addr : (InList(r) /\ r < L) => r <= q

NotMarker(b) == b.kind \notin MarkerKinds

\* The list is [Label, Bytes] at L, the Bytes block running to the first
\* stop after L in the section the block is read from.
LabelThenBytes(L, blocks) ==
    /\ Len(blocks) = 2
    /\ blocks[1] = Block("Label", L, 0, 0)
    /\ blocks[2].kind = "Bytes"
    /\ blocks[2].addr = L
    /\ blocks[2].len >= 1
    /\ L + blocks[2].len = FirstStop(blocks[2].sec, L)

SplitsBefore(L) ==
    /\ InList(L)
    /\ LET before == parse_blocks(Preceding(L))
       IN /\ before.status = "ok"
          /\ before.blocks # <<>>
          /\ before.blocks[Len(before.blocks)].kind = "Bytes"
          /\ Preceding(L) + before.blocks[Len(before.blocks)].len = L

Prior == IF stream # <<>> /\ stream[1] = Earlier THEN 1 ELSE 0
Tokenized == ~Untouched(stream)

\* The lines tokenize is to emit for n bytes.
LinesOf(n) == Min(CeilDiv(n, ChunkWidth), MaxLines)

\* C21: tokenizing a Bytes block of n >= 1 bytes at addr adds 3k - 1 tokens
\* for k = min(ceil(n/32), 100) lines: line i is the address prefix of
\* addr + 32i and the hex of bytes [32i, min(32i + 32, n)), a newline token
\* follows every line but the last.
C21_BytesLines ==
    (Tokenized /\ block.kind = "Bytes") =>
        LET n == block.len
            k == LinesOf(n)
            p == Prior
        IN /\ Len(stream) = p + 3 * k - 1
           /\ \A i \in 0..(k - 1) :
                 /\ stream[p + 3 * i + 1] = Tok("addr", block.addr + ChunkWidth * i, 0, 0)
                 /\ stream[p + 3 * i + 2] = Tok("hex", 0, ChunkWidth * i,
                                               Min(ChunkWidth * i + ChunkWidth, n))
                 /\ i < k - 1 => stream[p + 3 * i + 3] = Fixed("newline")

\* A Bytes block at address 1 with a last line shorter than 32 bytes was
\* tokenized into a stream that held a token, and one of more than 3200
\* bytes could be (the cap of 100 lines applies to it).
C21_Witness ==
    /\ Tokenized
    /\ block.kind = "Bytes"
    /\ block.addr = 1
    /\ block.len = 2 * ChunkWidth + 1
    /\ Prior = 1
    /\ Len(stream) = 9

\* The address-prefixed lines and the newline tokens in the stream.
PrefixedLines == Cardinality({k \in DOMAIN stream : stream[k].kind = "addr"})
Newlines == Cardinality({k \in DOMAIN stream : stream[k] = Fixed("newline")})

\* C22: for a Bytes block of any byte count, Block::len is the number of
\* address-prefixed lines Block::tokenize emits for it, one more than the
\* number of newline tokens it pushes.
C22_LenIsTokenizedLines ==
    (lines # 0 /\ Tokenized /\ block.kind = "Bytes") =>
        (lines = PrefixedLines /\ lines = Newlines + 1)

Holds(blocks, b) == \E k \in DOMAIN blocks : blocks[k] = b
IndexOf(blocks, b) == CHOOSE k \in DOMAIN blocks : blocks[k] = b

OwnMarkers(s, a, res) ==
    LET started == Block("SectionStart", a, s, 0)
        ended == Block("SectionEnd", a, s, 0)
    IN /\ a = sections[s].start => (res.status = "ok" /\ Holds(res.blocks, started))
       /\ a = sections[s].end => (res.status = "ok" /\ Holds(res.blocks, ended))
       /\ (a = sections[s].start /\ a = sections[s].end) =>
             IndexOf(res.blocks, started) < IndexOf(res.blocks, ended)

\* C23: a call of parse_blocks at the start of a section returns that
\* section's SectionStart and at its end that section's SectionEnd, whatever
\* other section starts or ends there, and for an empty section the
\* SectionStart first.
C23_OwnMarkers ==
    Called => \A s \in DOMAIN sections : OwnMarkers(s, paddr, presult)

\* The timestamp at the head of the cache file is the source's.
StampMatches ==
    /\ src.exists
    /\ cache.exists
    /\ cache.data # <<>>
    /\ cache.data[1].v = src.mtime

\* C24: retrieve_cached_module hands out the module stored in the cache
\* file only when the stored timestamp equals the source's; in every other
\* case the call goes on to compile_shader; and a source modified after the
\* cache was written is not served from the cache.
C24_CacheOnlyWhenFresh ==
    [][(sh.pc = "retrieve" /\ sh'.pc # "retrieve") =>
          /\ sh'.res.status = "cached" => (StampMatches /\ sh'.res.binary = ReadToEnd(cache.data))
          /\ sh'.res.status # "cached" => sh'.pc = "compile"
          /\ stale => sh'.res.status # "cached"]_vars

\* C25: when compile_shader has succeeded, the cache file holds the
\* timestamp it read from the source, then the binary it produced, and
\* nothing else, so that reading the cache back gives that binary.
C25_CacheIsStampAndBinary ==
    (sh.pc = "done" /\ sh.res.status = "compiled") =>
        /\ cache.exists
        /\ cache.data = <<Ts(sh.meta)>> \o Binary(sh.content)
        /\ ReadToEnd(cache.data) = sh.res.binary


\* The lines pushed by one task form one contiguous segment of the list.
Contiguous(list) ==
    \A i \in 1..Len(list) : \A k \in i..Len(list) : \A j \in i..k :
        list[i].task = list[k].task => list[j].task = list[i].task

\* A task that has taken the lock and not yet ended holds the mutex.
HoldsGuard(t) == tasks[t].pc \in {"read", "push"} => mutex.holder = t

\* C26: when two load_dissasembly tasks run concurrently on the same list,
\* their pushes never interleave: the lines pushed by one task form one
\* contiguous segment of the list, and each task holds the mutex of the
\* list from before its first push until after its last.
C26_PushesDoNotInterleave ==
    /\ Contiguous(dissasembly)
    /\ \A t \in Tasks : HoldsGuard(t)

\* One task has pushed a line and has more to push while another task,
\* spawned for a file with lines, waits for the mutex.
C26_Witness ==
    \E t \in Tasks : \E u \in Tasks \ {t} :
        /\ tasks[t].pc = "push"
        /\ 1 < tasks[t].next
        /\ tasks[t].next <= tasks[t].file
        /\ \E i \in 1..Len(dissasembly) : dissasembly[i].task = t
        /\ tasks[u].pc = "lock"
        /\ tasks[u].file > 0

\* C27: after a load_dissasembly task for a file completes, the list holds
\* exactly the lines decoded from that file, in stream order, whatever
\* earlier loads had put into the list.
C27_ListIsLoadedFile ==
    [][\A t \in Tasks :
          (tasks[t].pc = "push" /\ tasks'[t].pc = "done") =>
              Shown(dissasembly') = Decoded(tasks[t].file)]_vars

====
